---- MODULE Spec2Model ----
(***************************************************************************)
(* The session relay of robot-adk-agent/app/server.py: GeminiSession (the  *)
(* two forwarding loops, the tool-call dispatcher, the tool tasks and      *)
(* cleanup) and connect_and_run under its backoff retry decorator.         *)
(*                                                                         *)
(* Every coroutine is modelled by its position (pc); one action is the     *)
(* code a coroutine runs between two suspension points (await).  asyncio   *)
(* is single-threaded and cooperative, so such a segment is atomic.        *)
(***************************************************************************)
EXTENDS Integers, Sequences, FiniteSets, TLC

\* ------------------------------------------------------------- bounds
\* Upstream frames delivered to one session.
MaxFrames == 2
\* Client messages delivered to one session.
MaxClientMsgs == 2
\* Function invocations in one toolCall frame.
MaxCalls == 2
\* Last instant of the model clock.
MaxTime == 2
\* Inputs of a session in the specifications that run two sessions or the
\* retry sequence (SpecTwo, SpecRetry).
SmallFrames == 1
SmallClientMsgs == 1

\* ------------------------------------------------- program constants
\* backoff.on_exception(..., max_tries=10, ...)
max_tries == 10
\* timedelta(days=1), in ticks of the model clock
days_1 == 2

\* The client connections (websockets) the server has accepted.
Conns == {"A", "B"}
\* The three callers of GeminiSession.cleanup.
Callers == {"receive_from_client", "receive_from_gemini", "connect_and_run"}

VARIABLES
    now,                 \* datetime.now(ZoneInfo("Asia/Hong_Kong"))
    limits,              \* inputs the environment still delivers (fixed per behaviour)
    SKIP_TIME_CHECK,     \* the environment setting, fixed per behaviour
    session_key,         \* per connection: the decrypted user_id query parameter
    tries,               \* per connection: attempts of connect_and_run so far
    exception,           \* per connection: what the last attempt raised, or "None"
    pc,                  \* per connection: position of each coroutine
    is_running,          \* GeminiSession._is_running
    run_id,              \* GeminiSession.run_id
    user_id,             \* GeminiSession.user_id
    window,              \* GeminiSession.(start_time, end_time)
    tool_tasks,          \* GeminiSession._tool_tasks: list of task ids
    tool_call_queue,     \* GeminiSession._tool_call_queue
    tool_processor_task, \* GeminiSession._tool_processor_task
    task,                \* the _handle_tool_call tasks ever created, by id
    gather_wait,         \* per caller of cleanup: the tasks its gather awaits
    cleanup_invoked,     \* history: the callers that have called cleanup
    from_client,         \* data returned by websocket.receive_json, in order, and when
    from_upstream,       \* frames returned by session._ws.recv, in order
    to_upstream,         \* messages sent on the upstream session, in order
    to_client            \* messages sent on the client websocket, in order

session_vars == <<is_running, run_id, user_id, window, tool_tasks,
                  tool_call_queue, tool_processor_task>>
io_vars == <<from_client, from_upstream, to_upstream, to_client>>
env_vars == <<limits, SKIP_TIME_CHECK, session_key>>
retry_vars == <<tries, exception>>
vars == <<now, limits, SKIP_TIME_CHECK, session_key, tries, exception, pc, is_running,
          run_id, user_id, window, tool_tasks, tool_call_queue,
          tool_processor_task, task, gather_wait, cleanup_invoked, from_client,
          from_upstream, to_upstream, to_client>>

\* ------------------------------------------------------------ helpers
SeqToSet(s) == {s[i] : i \in DOMAIN s}
Last(s) == s[Len(s)]

\* ------------------------------------------------- client messages
\* The JSON values a client may send (what receive_json returns), by shape.
ClientData == {"realtimeInput", "clientContent", "setup",
               "setup+clientContent", "setup_no_run_id", "setup_no_user_id",
               "unknown_keys", "array", "number"}
\* isinstance(data, dict)
is_dict(data) == data \notin {"array", "number"}
\* "realtimeInput" in data or "clientContent" in data
has_realtimeInput_key(data) == data \in {"realtimeInput"}
has_content_key(data) ==
    data \in {"realtimeInput", "clientContent", "setup+clientContent"}
\* "setup" in data; on a number the `in` operator raises TypeError, an
\* array (of non-string items) holds no "setup"
has_setup_key(data) ==
    data \in {"setup", "setup+clientContent", "setup_no_run_id", "setup_no_user_id"}
in_raises(data) == data = "number"
\* data["setup"]["run_id"], data["setup"]["user_id"]; "KeyError" when absent
setup_run_id(data) == IF data = "setup_no_run_id" THEN "KeyError" ELSE "r1"
setup_user_id(data) == IF data = "setup_no_user_id" THEN "KeyError" ELSE "u1"

\* A serialisation that writes the same text for every message.
json_dumps_lossy(data) == [json |-> "clientContent", separators |-> "python"]
\* json.dumps and json.loads: the text json.dumps writes uses Python's
\* separators, whatever the text the client sent looked like.
json_dumps(data) == [json |-> data, separators |-> "python"]
json_loads(text) == text.json

\* Strict containment, self.start_time < current_time < self.end_time.
in_window_lax(w, t) == w[1] <= t /\ t <= w[2]
in_window(w, t) == w[1] < t /\ t < w[2]

\* ------------------------------------------------- upstream frames
\* What session._ws.recv(decode=False) returns: an empty frame (falsy), bytes
\* that are not JSON, a JSON object without "toolCall", one whose toolCall
\* does not validate, a toolCall whose function_calls is None, or a toolCall
\* with a list of n = 1..MaxCalls invocations (their ids are 1..n within the
\* frame).
Frames ==
    {[kind |-> k, n |-> 0] :
        k \in {"empty", "not_json", "content", "toolCall_invalid", "toolCall_None"}}
    \cup {[kind |-> "toolCall", n |-> n] : n \in 1..MaxCalls}
\* recv raises instead of returning.
RecvRaises == [kind |-> "raise", n |-> 0]

\* --------------------------------------------------------- task states
task_done(t) == t.st \in {"done", "cancelled", "failed"}
processor_done(p) == p.st \in {"cancelled", "finished"}
\* asyncio.gather(*tasks, return_exceptions=True)
return_exceptions_off == FALSE
return_exceptions == TRUE
\* list.clear()
clear_forgotten(l) == l
clear(l) == <<>>

\* A task object: None, or a task with its state, a pending cancel() request
\* and, for the dispatcher, whether the queue item it waits for had already
\* been handed to its wait_for when cancel() was called.
NoTask == [st |-> "None", must_cancel |-> FALSE, swallow |-> FALSE]
NewTask == [st |-> "created", must_cancel |-> FALSE, swallow |-> FALSE]

\* The collaborators a session awaits or calls: the upstream session, the
\* client websocket, the tool backend, the logging client, and the exits of
\* the two `async with` blocks.
Collaborators == {"session", "websocket", "mcp_client", "logger", "async_with"}
\* Whether a call of collaborator `what` returns (TRUE) or raises (FALSE).
Outcomes(c, what) == IF what \in limits[c].faults THEN BOOLEAN ELSE {TRUE}

\* ------------------------------------------------------------ cleanup
\* Where a caller of cleanup continues when cleanup returns: each loop is
\* at its end (finally), the handler of connect_and_run re-raises.
after_cleanup(who) == IF who = "connect_and_run" THEN "raised" ELSE "done"

\* What cancel() does to a dispatcher suspended in wait_for(queue.get()):
\* when the queue holds an item for it, asyncio.wait_for of CPython up to
\* 3.11 returns the item and drops the cancellation (TRUE), from 3.12 the
\* cancellation wins (FALSE); with no item the cancellation is delivered.
wait_for_swallows(p, queue) ==
    IF p.st = "waiting" /\ queue # <<>> THEN BOOLEAN ELSE {FALSE}

\* self._tool_processor_task.cancel(); a second cancel() changes nothing.
cancel_processor(p, swallow) ==
    [p EXCEPT !.must_cancel = TRUE,
              !.swallow = IF p.must_cancel THEN p.swallow ELSE swallow]

\* for task in self._tool_tasks: if not task.done(): task.cancel()
cancel_tool_tasks(tasks, lst) ==
    [i \in DOMAIN tasks |->
        IF i \in SeqToSet(lst) /\ ~task_done(tasks[i])
        THEN [tasks[i] EXCEPT !.must_cancel = TRUE]
        ELSE tasks[i]]

\* cleanup from "Cancel any remaining tool tasks" to its end, or to the
\* await of gather when the list is not empty.
cleanup_tool_tasks(c, who) ==
    /\ task' = [task EXCEPT ![c] = cancel_tool_tasks(task[c], tool_tasks[c])]
    /\ IF tool_tasks[c] # <<>>
       THEN /\ pc' = [pc EXCEPT ![c][who] = "cleanup_gather"]
            /\ gather_wait' = [gather_wait EXCEPT ![c][who] = SeqToSet(tool_tasks[c])]
            /\ UNCHANGED tool_tasks
       ELSE /\ pc' = [pc EXCEPT ![c][who] = after_cleanup(who)]
            /\ tool_tasks' = [tool_tasks EXCEPT ![c] = clear(tool_tasks[c])]
            /\ UNCHANGED gather_wait

\* cleanup from its first line to its first await (or to its end). proc is
\* self._tool_processor_task when cleanup is called.
cleanup(c, who, proc) ==
    /\ is_running' = [is_running EXCEPT ![c] = FALSE]
    /\ cleanup_invoked' = [cleanup_invoked EXCEPT ![c] = @ \cup {who}]
    /\ IF proc.st # "None" /\ ~processor_done(proc)
       THEN /\ \E swallow \in wait_for_swallows(proc, tool_call_queue[c]) :
                  tool_processor_task' =
                     [tool_processor_task EXCEPT ![c] = cancel_processor(proc, swallow)]
            /\ pc' = [pc EXCEPT ![c][who] = "cleanup_await_processor"]
            /\ UNCHANGED <<task, tool_tasks, gather_wait>>
       ELSE /\ tool_processor_task' = [tool_processor_task EXCEPT ![c] = proc]
            /\ cleanup_tool_tasks(c, who)

no_cleanup == UNCHANGED <<is_running, tool_processor_task, task, tool_tasks, gather_wait, cleanup_invoked>>

\* cleanup resumes from `await self._tool_processor_task`: the task ended,
\* cancelled (CancelledError, suppressed) or returned.
cleanup_processor_awaited(c, who) ==
    /\ pc[c][who] = "cleanup_await_processor"
    /\ processor_done(tool_processor_task[c])
    /\ cleanup_tool_tasks(c, who)
    /\ UNCHANGED <<now, env_vars, retry_vars, is_running, run_id, user_id, window,
                   tool_call_queue, tool_processor_task, cleanup_invoked, io_vars>>

\* cleanup resumes from `await asyncio.gather(...)`: every awaited task is
\* done. Without return_exceptions the first failure or cancellation among
\* them would be raised out of cleanup.
cleanup_gathered(c, who) ==
    /\ pc[c][who] = "cleanup_gather"
    /\ \A i \in gather_wait[c][who] : task_done(task[c][i])
    /\ gather_wait' = [gather_wait EXCEPT ![c][who] = {}]
    /\ IF return_exceptions
          \/ \A i \in gather_wait[c][who] : task[c][i].st = "done"
       THEN /\ tool_tasks' = [tool_tasks EXCEPT ![c] = clear(tool_tasks[c])]
            /\ pc' = [pc EXCEPT ![c][who] = after_cleanup(who)]
       ELSE /\ pc' = [pc EXCEPT ![c][who] =
                        IF who = "connect_and_run" THEN "raised" ELSE "failed"]
            /\ UNCHANGED tool_tasks
    /\ UNCHANGED <<now, env_vars, retry_vars, is_running, run_id, user_id, window,
                   tool_call_queue, tool_processor_task, task, cleanup_invoked, io_vars>>

\* self._tool_call_queue = Queue(): asyncio.Queue with maxsize 0. put()
\* waits while full(), and full() is false whenever maxsize <= 0.
maxsize == 0
full_at_one(queue) == Len(queue) >= 1
full(queue) == IF maxsize <= 0 THEN FALSE ELSE Len(queue) >= maxsize

\* self._tool_call_queue of session c: the Queue its __init__ created.
tool_call_queue_shared(c) == "A"
tool_call_queue_of(c) == c

\* ------------------------------------------------ receive_from_client
\* A loop test whose loop ends without the cleanup of `finally`.
client_loop_no_finally(c) ==
    IF is_running[c]
    THEN /\ pc' = [pc EXCEPT ![c].receive_from_client = "receive_json"]
         /\ no_cleanup
    ELSE /\ pc' = [pc EXCEPT ![c].receive_from_client = "done"]
         /\ no_cleanup
\* `while self._is_running:` of receive_from_client: the next iteration
\* awaits receive_json, the end of the loop runs `finally: cleanup()`.
client_loop(c) ==
    IF is_running[c]
    THEN /\ pc' = [pc EXCEPT ![c].receive_from_client = "receive_json"]
         /\ no_cleanup
    ELSE cleanup(c, "receive_from_client", tool_processor_task[c])

\* The task gather creates for receive_from_client runs its first step.
receive_from_client_start(c) ==
    /\ pc[c].receive_from_client = "start"
    /\ client_loop(c)
    /\ UNCHANGED <<now, env_vars, retry_vars, run_id, user_id, window,
                   tool_call_queue, io_vars>>

\* receive_json returns data, or raises (the peer closed, the text is not
\* JSON): the body of one iteration up to its next await.
receive_from_client_recv(c) ==
    /\ pc[c].receive_from_client = "receive_json"
    /\ \E data \in limits[c].client_data \cup {"raise"}, log_ok \in Outcomes(c, "logger") :
        LET current_time == now
            valid == in_window(window[c], current_time)
            break == cleanup(c, "receive_from_client", tool_processor_task[c])
        IN
        /\ data # "raise" => Len(from_client[c]) < limits[c].client_msgs
        /\ data # "setup" => log_ok
        /\ from_client' =
              IF data = "raise" THEN from_client
              ELSE [from_client EXCEPT
                      ![c] = Append(@, [data |-> data, time |-> current_time])]
        /\ CASE data = "raise" ->
                  break /\ UNCHANGED <<run_id, user_id>>
             [] data # "raise" /\ ~valid ->
                  break /\ UNCHANGED <<run_id, user_id>>
             [] data # "raise" /\ valid /\ is_dict(data) /\ has_content_key(data) ->
                  \* await self.session._ws.send(json.dumps(data))
                  /\ pc' = [pc EXCEPT ![c].receive_from_client = "send"]
                  /\ no_cleanup
                  /\ UNCHANGED <<run_id, user_id>>
             [] data # "raise" /\ valid /\ ~(is_dict(data) /\ has_content_key(data))
                  /\ in_raises(data) ->
                  \* TypeError of `"setup" in data`, caught by `except Exception`
                  break /\ UNCHANGED <<run_id, user_id>>
             [] data # "raise" /\ valid /\ ~(is_dict(data) /\ has_content_key(data))
                  /\ ~in_raises(data) /\ has_setup_key(data) ->
                  IF setup_run_id(data) = "KeyError"
                  THEN break /\ UNCHANGED <<run_id, user_id>>
                  ELSE /\ run_id' = [run_id EXCEPT ![c] = setup_run_id(data)]
                       /\ IF setup_user_id(data) = "KeyError"
                          THEN break /\ UNCHANGED user_id
                          ELSE /\ user_id' = [user_id EXCEPT ![c] = setup_user_id(data)]
                               \* logger.log_struct may raise
                               /\ IF log_ok THEN client_loop(c) ELSE break
             [] OTHER ->
                  \* logging.warning("Received unexpected input ...")
                  client_loop(c) /\ UNCHANGED <<run_id, user_id>>
    /\ UNCHANGED <<now, env_vars, retry_vars, window, tool_call_queue,
                   from_upstream, to_upstream, to_client>>

\* `await self.session._ws.send(json.dumps(data))` returns or raises.
receive_from_client_sent(c) ==
    /\ pc[c].receive_from_client = "send"
    /\ \E ok \in Outcomes(c, "session") :
        IF ok
        THEN /\ to_upstream' =
                  [to_upstream EXCEPT
                      ![c] = Append(@, [via |-> "client",
                                         text |-> json_dumps(Last(from_client[c]).data)])]
             /\ client_loop(c)
        ELSE /\ cleanup(c, "receive_from_client", tool_processor_task[c])
             /\ UNCHANGED to_upstream
    /\ UNCHANGED <<now, env_vars, retry_vars, run_id, user_id, window,
                   tool_call_queue, from_client, from_upstream, to_client>>

\* ------------------------------------------------ receive_from_gemini
\* `while self._is_running and (result := await recv(...))`, given the
\* dispatcher task as it is now.
gemini_loop(c, proc) ==
    IF is_running[c]
    THEN /\ pc' = [pc EXCEPT ![c].receive_from_gemini = "recv"]
         /\ tool_processor_task' = [tool_processor_task EXCEPT ![c] = proc]
         /\ UNCHANGED <<is_running, task, tool_tasks, gather_wait, cleanup_invoked>>
    ELSE cleanup(c, "receive_from_gemini", proc)

\* The task gather creates for receive_from_gemini runs its first step,
\* after that of receive_from_client: it creates the dispatcher task.
receive_from_gemini_start(c) ==
    /\ pc[c].receive_from_gemini = "start"
    /\ pc[c].receive_from_client # "start"
    /\ gemini_loop(c, NewTask)
    /\ UNCHANGED <<now, env_vars, retry_vars, run_id, user_id, window,
                   tool_call_queue, io_vars>>

\* recv returns a frame, or raises.
receive_from_gemini_recv(c) ==
    /\ pc[c].receive_from_gemini = "recv"
    /\ \E result \in limits[c].frame_set \cup {RecvRaises} :
        /\ result # RecvRaises => Len(from_upstream[c]) < limits[c].frames
        /\ from_upstream' =
              IF result = RecvRaises THEN from_upstream
              ELSE [from_upstream EXCEPT ![c] = Append(@, result)]
        /\ IF result.kind \in {"raise", "empty"}
           THEN cleanup(c, "receive_from_gemini", tool_processor_task[c])
           ELSE \* await self.websocket.send_bytes(result)
                /\ pc' = [pc EXCEPT ![c].receive_from_gemini = "send_bytes"]
                /\ no_cleanup
    /\ UNCHANGED <<now, env_vars, retry_vars, run_id, user_id, window,
                   tool_call_queue, from_client, to_upstream, to_client>>

\* `await self.websocket.send_bytes(result)` returns or raises; then the
\* frame is parsed and a tool call is put on the queue.
receive_from_gemini_forwarded(c) ==
    /\ pc[c].receive_from_gemini = "send_bytes"
    /\ \E ok \in Outcomes(c, "websocket") :
        LET result == Last(from_upstream[c])
            raises == cleanup(c, "receive_from_gemini", tool_processor_task[c])
        IN
        IF ~ok
        THEN raises /\ UNCHANGED <<to_client, tool_call_queue>>
        ELSE /\ to_client' = [to_client EXCEPT ![c] = Append(@, [bytes |-> result])]
             /\ CASE result.kind \in {"not_json", "toolCall_invalid"} ->
                       raises /\ UNCHANGED tool_call_queue
                  [] result.kind \in {"toolCall", "toolCall_None"} ->
                       \* await self._tool_call_queue.put(tool_call)
                       /\ ~full(tool_call_queue[tool_call_queue_of(c)])
                       /\ tool_call_queue' =
                             [tool_call_queue EXCEPT
                                 ![tool_call_queue_of(c)] = Append(@, [frame |-> Len(from_upstream[c]),
                                                    is_none |-> result.kind = "toolCall_None",
                                                    n |-> result.n])]
                       /\ gemini_loop(c, tool_processor_task[c])
                  [] OTHER ->
                       gemini_loop(c, tool_processor_task[c]) /\ UNCHANGED tool_call_queue
    /\ UNCHANGED <<now, env_vars, retry_vars, run_id, user_id, window,
                   from_client, from_upstream, to_upstream>>

\* ------------------------------------------------ _process_tool_calls
\* A pruning that keeps no task at all.
prune_all(tasks, lst) == <<>>
\* self._tool_tasks = [t for t in self._tool_tasks if not t.done()]
prune(tasks, lst) == SelectSeq(lst, LAMBDA i : ~task_done(tasks[i]))

\* The dispatcher task runs its first step: a task cancelled before it
\* starts never runs; otherwise `while self._is_running:` and wait_for.
process_tool_calls_start(c) ==
    /\ tool_processor_task[c].st = "created"
    /\ tool_processor_task' =
          [tool_processor_task EXCEPT
              ![c].st = IF tool_processor_task[c].must_cancel THEN "cancelled"
                        ELSE IF is_running[c] THEN "waiting" ELSE "finished"]
    /\ UNCHANGED <<now, env_vars, retry_vars, pc, is_running, run_id, user_id, window,
                   tool_tasks, tool_call_queue, task, gather_wait, cleanup_invoked, io_vars>>

\* wait_for(queue.get()) returns a tool call: create_task, append, prune,
\* and back to `while self._is_running:`.
process_tool_calls_get(c) ==
    /\ tool_processor_task[c].st = "waiting"
    /\ tool_call_queue[tool_call_queue_of(c)] # <<>>
    /\ tool_processor_task[c].must_cancel => tool_processor_task[c].swallow
    /\ LET tool_call == Head(tool_call_queue[tool_call_queue_of(c)])
           new == [frame |-> tool_call.frame, is_none |-> tool_call.is_none,
                   n |-> tool_call.n, fc |-> 0, st |-> "created",
                   must_cancel |-> FALSE]
           tasks == Append(task[c], new)
       IN
       /\ task' = [task EXCEPT ![c] = tasks]
       /\ tool_tasks' = [tool_tasks EXCEPT
                            ![c] = prune(tasks, Append(tool_tasks[c], Len(tasks)))]
    /\ tool_call_queue' = [tool_call_queue EXCEPT ![tool_call_queue_of(c)] = Tail(@)]
    /\ tool_processor_task' =
          [tool_processor_task EXCEPT
              ![c].st = IF is_running[c] THEN "waiting" ELSE "finished"]
    /\ UNCHANGED <<now, env_vars, retry_vars, pc, is_running, run_id, user_id, window,
                   gather_wait, cleanup_invoked, io_vars>>

\* A timeout that takes the head of the queue with it.
process_tool_calls_timeout_drops(c) ==
    /\ tool_processor_task[c].st = "waiting"
    /\ ~tool_processor_task[c].must_cancel
    /\ tool_call_queue' =
          [tool_call_queue EXCEPT ![c] = IF @ = <<>> THEN @ ELSE Tail(@)]
    /\ tool_processor_task' =
          [tool_processor_task EXCEPT
              ![c].st = IF is_running[c] THEN "waiting" ELSE "finished"]
    /\ UNCHANGED <<now, env_vars, retry_vars, pc, is_running, run_id, user_id, window,
                   tool_tasks, task, gather_wait, cleanup_invoked, io_vars>>

\* wait_for times out (asyncio.TimeoutError): `continue`.
process_tool_calls_timeout(c) ==
    /\ tool_processor_task[c].st = "waiting"
    /\ ~tool_processor_task[c].must_cancel
    /\ tool_processor_task' =
          [tool_processor_task EXCEPT
              ![c].st = IF is_running[c] THEN "waiting" ELSE "finished"]
    /\ UNCHANGED <<now, env_vars, retry_vars, pc, is_running, run_id, user_id, window,
                   tool_tasks, tool_call_queue, task, gather_wait, cleanup_invoked, io_vars>>

\* CancelledError is raised at wait_for and re-raised by the handler.
process_tool_calls_cancelled(c) ==
    /\ tool_processor_task[c].st = "waiting"
    /\ tool_processor_task[c].must_cancel
    /\ tool_processor_task' = [tool_processor_task EXCEPT ![c].st = "cancelled"]
    /\ UNCHANGED <<now, env_vars, retry_vars, pc, is_running, run_id, user_id, window,
                   tool_tasks, tool_call_queue, task, gather_wait, cleanup_invoked, io_vars>>

\* ------------------------------------------------- _handle_tool_call
\* `for fc in tool_call.function_calls:` moves to the next invocation, or
\* the coroutine returns.
next_fc(t) ==
    IF t.fc < t.n
    THEN [t EXCEPT !.fc = t.fc + 1, !.st = "call_tool"]
    ELSE [t EXCEPT !.st = "done"]

\* The response envelope of the current invocation: FunctionResponse(id=fc.id).
envelope_first_id(t, kind) == [via |-> "tool", frame |-> t.frame, id |-> 1, response |-> kind]
envelope(t, kind) == [via |-> "tool", frame |-> t.frame, id |-> t.fc, response |-> kind]

tool_task_unchanged ==
    UNCHANGED <<now, env_vars, retry_vars, pc, is_running, run_id, user_id, window,
                tool_tasks, tool_call_queue, tool_processor_task, gather_wait, cleanup_invoked,
                from_client, from_upstream, to_client>>

\* A tool task runs its first step.
handle_tool_call_start(c, i) ==
    /\ task[c][i].st = "created"
    /\ task' = [task EXCEPT ![c][i] =
                  IF @.must_cancel THEN [@ EXCEPT !.st = "cancelled"]
                  ELSE IF @.is_none THEN [@ EXCEPT !.st = "done"]
                  ELSE next_fc(@)]
    /\ UNCHANGED to_upstream
    /\ tool_task_unchanged

\* `await self.mcp_client.call_tool(fc.name, fc.args)` returns a result with
\* a text, or anything else happens (the backend fails, the arguments are
\* malformed, the result has no text).
handle_tool_call_called(c, i) ==
    /\ task[c][i].st = "call_tool"
    /\ ~task[c][i].must_cancel
    /\ \E ok \in Outcomes(c, "mcp_client") :
        task' = [task EXCEPT ![c][i].st = IF ok THEN "send" ELSE "send_error"]
    /\ UNCHANGED to_upstream
    /\ tool_task_unchanged

\* `await session.send(input=tool_response)` returns, or raises into
\* `except Exception`.
handle_tool_call_sent(c, i) ==
    /\ task[c][i].st = "send"
    /\ ~task[c][i].must_cancel
    /\ \E ok \in Outcomes(c, "session") :
        IF ok
        THEN /\ to_upstream' = [to_upstream EXCEPT
                                  ![c] = Append(@, envelope(task[c][i], "response"))]
             /\ task' = [task EXCEPT ![c][i] = next_fc(@)]
        ELSE /\ task' = [task EXCEPT ![c][i].st = "send_error"]
             /\ UNCHANGED to_upstream
    /\ tool_task_unchanged

\* `await session.send(input=error_response)` in the handler returns, or
\* raises out of the coroutine.
handle_tool_call_error_sent(c, i) ==
    /\ task[c][i].st = "send_error"
    /\ ~task[c][i].must_cancel
    /\ \E ok \in Outcomes(c, "session") :
        IF ok
        THEN /\ to_upstream' = [to_upstream EXCEPT
                                  ![c] = Append(@, envelope(task[c][i], "error"))]
             /\ task' = [task EXCEPT ![c][i] = next_fc(@)]
        ELSE /\ task' = [task EXCEPT ![c][i].st = "failed"]
             /\ UNCHANGED to_upstream
    /\ tool_task_unchanged

\* A CancelledError that `except Exception` catches: the handler goes on
\* to send the error response.
handle_tool_call_cancelled_caught(c, i) ==
    /\ task[c][i].st \in {"call_tool", "send", "send_error"}
    /\ task[c][i].must_cancel
    /\ task' = [task EXCEPT ![c][i].st = "send_error", ![c][i].must_cancel = FALSE]
    /\ UNCHANGED to_upstream
    /\ tool_task_unchanged

\* CancelledError is raised at the await the task is suspended in; it is
\* no Exception, so no handler catches it.
handle_tool_call_cancelled(c, i) ==
    /\ task[c][i].st \in {"call_tool", "send", "send_error"}
    /\ task[c][i].must_cancel
    /\ task' = [task EXCEPT ![c][i].st = "cancelled"]
    /\ UNCHANGED to_upstream
    /\ tool_task_unchanged

\* ---------------------------------------------------------- the clock
Tick ==
    /\ now < MaxTime
    /\ now' = now + 1
    /\ UNCHANGED <<env_vars, retry_vars, pc, session_vars, task, gather_wait, cleanup_invoked, io_vars>>

\* ------------------------------------------------------------ decrypt
\* What the user_id query parameter decrypts to: nothing (bad base64,
\* padding or JSON), or a JSON object that may hold "from" and "to".
Tokens ==
    {[decodable |-> FALSE, has_from |-> FALSE, has_to |-> FALSE, from |-> 0, to |-> 0],
     [decodable |-> TRUE, has_from |-> FALSE, has_to |-> TRUE, from |-> 0, to |-> MaxTime],
     [decodable |-> TRUE, has_from |-> TRUE, has_to |-> FALSE, from |-> 0, to |-> 0]}
    \cup {[decodable |-> TRUE, has_from |-> TRUE, has_to |-> TRUE, from |-> 0, to |-> t] :
            t \in {days_1, MaxTime}}
\* A decrypt that takes every token it can decode for valid.
decrypt_any_window(key, t) ==
    [is_none |-> ~key.decodable, is_valid |-> key.decodable]
\* decrypt(session_key) at time t: "None", or the session object with
\* is_valid = from and to are present and from < now < to.
decrypt(key, t) ==
    IF ~key.decodable THEN [is_none |-> TRUE, is_valid |-> FALSE]
    ELSE [is_none |-> FALSE,
          is_valid |-> key.has_from /\ key.has_to /\ key.from < t /\ t < key.to]

\* ------------------------------------------------- GeminiSession.__init__
NoSessionPc == [connect_and_run |-> "none", receive_from_client |-> "none",
                receive_from_gemini |-> "none"]
\* The window connect_and_run hands to GeminiSession.
session_window(skip, key, t) ==
    IF skip THEN <<t, t + days_1>> ELSE <<key.from, key.to>>

\* ------------------------------------------------------- status notices
\* {"status": "Model connection error, retrying in ... seconds..."}
status_retrying == [status |-> "retrying"]
\* {"status": "Backend is ready for conversation"}
status_ready == [status |-> "ready"]

\* ---------------------------------------------------- websocket_endpoint
\* A client connects: accept, read user_id, call connect_and_run().
websocket_endpoint(c) ==
    /\ limits[c].connects
    /\ pc[c].connect_and_run = "none"
    /\ pc' = [pc EXCEPT ![c].connect_and_run = "call"]
    /\ UNCHANGED <<now, env_vars, retry_vars, session_vars, task, gather_wait, cleanup_invoked, io_vars>>

\* ------------------------------------------------------ connect_and_run
\* The decorator's decision on an exception raised by an attempt
\* (backoff.on_exception(backoff.expo, ConnectionClosedError, max_tries=10)):
\* retry on ConnectionClosedError while tries < max_tries, else raise.
retries_any(exc, n) == n < max_tries
retries(exc, n) == exc = "ConnectionClosedError" /\ n < max_tries

\* An attempt starts (the first, or the next after the backoff sleep): the
\* tool client is made and the validity check done, up to `async with
\* mcp_client`.
connect_and_run_attempt(c) ==
    /\ pc[c].connect_and_run \in {"call", "sleep"}
    /\ tries' = [tries EXCEPT ![c] = @ + 1]
    /\ exception' = [exception EXCEPT ![c] = "None"]
    /\ LET user_session == decrypt(session_key[c], now) IN
       IF ~SKIP_TIME_CHECK /\ (user_session.is_none \/ ~user_session.is_valid)
       THEN \* return None
            /\ pc' = [pc EXCEPT ![c].connect_and_run = "returned"]
            /\ UNCHANGED window
       ELSE /\ pc' = [pc EXCEPT ![c].connect_and_run = "connect"]
            /\ window' = [window EXCEPT
                            ![c] = session_window(SKIP_TIME_CHECK, session_key[c], now)]
    /\ UNCHANGED <<now, env_vars, is_running, run_id, user_id, tool_tasks,
                   tool_call_queue, tool_processor_task, task, gather_wait, cleanup_invoked, io_vars>>

\* What ends an attempt that raised exc before its session was made: the
\* handler (gemini_session is None) re-raises, the decorator retries or not.
attempt_raised(c, exc) == IF retries(exc, tries[c]) THEN "on_backoff" ELSE "raised"

\* An attempt that says it is ready without opening the upstream session.
connect_and_run_mcp_client_only(c) ==
    /\ pc[c].connect_and_run = "connect"
    /\ \E outcome \in {"ok", "ConnectionClosedError", "Exception"} :
        /\ pc' = [pc EXCEPT ![c].connect_and_run =
                     IF outcome = "ok" THEN "send_ready" ELSE attempt_raised(c, outcome)]
        /\ exception' = [exception EXCEPT
                            ![c] = IF outcome = "ok" THEN "None" ELSE outcome]
    /\ UNCHANGED <<now, env_vars, tries, session_vars, task, gather_wait, cleanup_invoked, io_vars>>

\* `async with mcp_client:` is entered and `await mcp_client.list_tools()`
\* returns, up to live.connect; or one of them raises.
connect_and_run_mcp_client(c) ==
    /\ pc[c].connect_and_run = "connect"
    /\ \E outcome \in {"ok", "ConnectionClosedError", "Exception"} :
        /\ pc' = [pc EXCEPT ![c].connect_and_run =
                     IF outcome = "ok" THEN "live_connect" ELSE attempt_raised(c, outcome)]
        /\ exception' = [exception EXCEPT
                            ![c] = IF outcome = "ok" THEN "None" ELSE outcome]
    /\ UNCHANGED <<now, env_vars, tries, session_vars, task, gather_wait, cleanup_invoked, io_vars>>

\* Opening the upstream session (`async with genai_client.aio.live.connect`)
\* succeeds, or raises: ConnectionClosedError (the upstream websocket), or
\* another exception. The handler (gemini_session is None) re-raises.
connect_and_run_connected(c) ==
    /\ pc[c].connect_and_run = "live_connect"
    /\ \E outcome \in {"ok", "ConnectionClosedError", "Exception"} :
        /\ pc' = [pc EXCEPT ![c].connect_and_run =
                     IF outcome = "ok" THEN "send_ready"
                     ELSE IF retries(outcome, tries[c]) THEN "on_backoff"
                     ELSE "raised"]
        /\ exception' = [exception EXCEPT
                            ![c] = IF outcome = "ok" THEN "None" ELSE outcome]
    /\ UNCHANGED <<now, env_vars, tries, session_vars, task, gather_wait, cleanup_invoked, io_vars>>

\* A retry handler that tells the client nothing.
on_backoff_silent(c) ==
    /\ pc[c].connect_and_run = "on_backoff"
    /\ pc' = [pc EXCEPT ![c].connect_and_run = "sleep"]
    /\ UNCHANGED <<now, env_vars, retry_vars, session_vars, task, gather_wait, cleanup_invoked, io_vars>>

\* on_backoff: `await websocket.send_json({"status": "Model connection
\* error, retrying ..."})` returns, or raises out of the decorator.
on_backoff(c) ==
    /\ pc[c].connect_and_run = "on_backoff"
    /\ \E ok \in BOOLEAN :
        IF ok
        THEN /\ to_client' = [to_client EXCEPT ![c] = Append(@, status_retrying)]
             /\ pc' = [pc EXCEPT ![c].connect_and_run = "sleep"]
             /\ UNCHANGED exception
        ELSE /\ pc' = [pc EXCEPT ![c].connect_and_run = "raised"]
             /\ exception' = [exception EXCEPT ![c] = "Exception"]
             /\ UNCHANGED to_client
    /\ UNCHANGED tries
    /\ UNCHANGED <<now, env_vars, session_vars, task, gather_wait, cleanup_invoked,
                   from_client, from_upstream, to_upstream>>

\* `await websocket.send_json({"status": "Backend is ready for
\* conversation"})` returns: GeminiSession(...), user_id, gather of the two
\* loops; or it raises, and the handler (gemini_session is None) re-raises.
connect_and_run_ready(c) ==
    /\ pc[c].connect_and_run = "send_ready"
    /\ \E ok \in Outcomes(c, "websocket") :
        IF ok
        THEN /\ to_client' = [to_client EXCEPT ![c] = Append(@, status_ready)]
             /\ is_running' = [is_running EXCEPT ![c] = TRUE]
             /\ run_id' = [run_id EXCEPT ![c] = "n/a"]
             /\ user_id' = [user_id EXCEPT ![c] = "initial_user_id"]
             /\ tool_tasks' = [tool_tasks EXCEPT ![c] = <<>>]
             /\ tool_call_queue' = [tool_call_queue EXCEPT ![c] = <<>>]
             /\ tool_processor_task' = [tool_processor_task EXCEPT ![c] = NoTask]
             /\ pc' = [pc EXCEPT ![c] = [connect_and_run |-> "gather",
                                         receive_from_client |-> "start",
                                         receive_from_gemini |-> "start"]]
             /\ UNCHANGED exception
        ELSE /\ pc' = [pc EXCEPT ![c].connect_and_run = "raised"]
             /\ exception' = [exception EXCEPT ![c] = "Exception"]
             /\ UNCHANGED <<to_client, is_running, run_id, user_id, tool_tasks,
                            tool_call_queue, tool_processor_task>>
    /\ UNCHANGED <<now, env_vars, tries, window, task, gather_wait, cleanup_invoked,
                   from_client, from_upstream, to_upstream>>

\* A gather whose return is followed by a retry of connect_and_run, as if
\* the exit of live.connect raised a ConnectionClosedError.
connect_and_run_gathered_retried(c) ==
    /\ pc[c].connect_and_run = "gather"
    /\ pc[c].receive_from_client \in {"done", "failed"}
    /\ pc[c].receive_from_gemini \in {"done", "failed"}
    /\ pc' = [pc EXCEPT ![c].connect_and_run =
                 IF tries[c] < max_tries THEN "sleep" ELSE "returned"]
    /\ no_cleanup
    /\ UNCHANGED <<now, env_vars, retry_vars, run_id, user_id, window,
                   tool_call_queue, io_vars>>

\* asyncio.gather(receive_from_client(), receive_from_gemini(),
\* return_exceptions=True) returns when both loops have ended; the two
\* `async with` blocks exit, and connect_and_run returns, or an exit raises
\* and the handler calls gemini_session.cleanup() before it re-raises. What
\* an exit raises is no ConnectionClosedError (the close() of the upstream
\* connection, the one with recv(decode=...), ignores ConnectionClosed), so
\* the decorator does not retry it.
connect_and_run_gathered(c) ==
    /\ pc[c].connect_and_run = "gather"
    /\ pc[c].receive_from_client \in {"done", "failed"}
    /\ pc[c].receive_from_gemini \in {"done", "failed"}
    /\ \E ok \in Outcomes(c, "async_with") :
        IF ok
        THEN /\ pc' = [pc EXCEPT ![c].connect_and_run = "returned"]
             /\ no_cleanup
             /\ UNCHANGED exception
        ELSE /\ cleanup(c, "connect_and_run", tool_processor_task[c])
             /\ exception' = [exception EXCEPT ![c] = "Exception"]
    /\ UNCHANGED <<now, env_vars, tries, run_id, user_id, window,
                   tool_call_queue, io_vars>>

\* ------------------------------------------------------ specifications
NoCleanupWait == [who \in Callers |-> {}]

\* No connection yet: the server has started.
InitServer(lim) ==
    /\ now = 0
    /\ limits = lim
    /\ SKIP_TIME_CHECK \in BOOLEAN
    /\ session_key \in [Conns -> IF SKIP_TIME_CHECK THEN {CHOOSE k \in Tokens : ~k.decodable}
                                 ELSE Tokens]
    /\ tries = [c \in Conns |-> 0]
    /\ exception = [c \in Conns |-> "None"]
    /\ pc = [c \in Conns |-> NoSessionPc]
    /\ is_running = [c \in Conns |-> FALSE]
    /\ run_id = [c \in Conns |-> "n/a"]
    /\ user_id = [c \in Conns |-> "n/a"]
    /\ window = [c \in Conns |-> <<0, 0>>]
    /\ tool_tasks = [c \in Conns |-> <<>>]
    /\ tool_call_queue = [c \in Conns |-> <<>>]
    /\ tool_processor_task = [c \in Conns |-> NoTask]
    /\ task = [c \in Conns |-> <<>>]
    /\ gather_wait = [c \in Conns |-> NoCleanupWait]
    /\ cleanup_invoked = [c \in Conns |-> {}]
    /\ from_client = [c \in Conns |-> <<>>]
    /\ from_upstream = [c \in Conns |-> <<>>]
    /\ to_upstream = [c \in Conns |-> <<>>]
    /\ to_client = [c \in Conns |-> <<>>]

\* Every connection that connects has a GeminiSession just constructed
\* by a first attempt of connect_and_run, which awaits gather: the attempt
\* started at time 0 and took its window from the clock (SKIP_TIME_CHECK),
\* the tool client and the upstream session were opened, the readiness
\* notice is sent, it is time t, and the loops have not run yet.
InitSessions(lim, t) ==
    /\ now = t
    /\ limits = lim
    /\ SKIP_TIME_CHECK = TRUE
    /\ session_key = [c \in Conns |-> CHOOSE k \in Tokens : ~k.decodable]
    /\ tries = [c \in Conns |-> IF lim[c].connects THEN 1 ELSE 0]
    /\ exception = [c \in Conns |-> "None"]
    /\ pc = [c \in Conns |->
               IF lim[c].connects
               THEN [connect_and_run |-> "gather", receive_from_client |-> "start",
                     receive_from_gemini |-> "start"]
               ELSE NoSessionPc]
    /\ is_running = [c \in Conns |-> lim[c].connects]
    /\ run_id = [c \in Conns |-> "n/a"]
    /\ user_id = [c \in Conns |-> IF lim[c].connects THEN "initial_user_id" ELSE "n/a"]
    /\ window = [c \in Conns |->
                   IF lim[c].connects
                   THEN session_window(SKIP_TIME_CHECK, session_key[c], 0)
                   ELSE <<0, 0>>]
    /\ tool_tasks = [c \in Conns |-> <<>>]
    /\ tool_call_queue = [c \in Conns |-> <<>>]
    /\ tool_processor_task = [c \in Conns |-> NoTask]
    /\ task = [c \in Conns |-> <<>>]
    /\ gather_wait = [c \in Conns |-> NoCleanupWait]
    /\ cleanup_invoked = [c \in Conns |-> {}]
    /\ from_client = [c \in Conns |-> <<>>]
    /\ from_upstream = [c \in Conns |-> <<>>]
    /\ to_upstream = [c \in Conns |-> <<>>]
    /\ to_client = [c \in Conns |-> IF lim[c].connects THEN <<status_ready>> ELSE <<>>]

\* The steps of a constructed session.
NextSession ==
    \/ \E c \in Conns : receive_from_client_start(c)
    \/ \E c \in Conns : receive_from_client_recv(c)
    \/ \E c \in Conns : receive_from_client_sent(c)
    \/ \E c \in Conns : receive_from_gemini_start(c)
    \/ \E c \in Conns : receive_from_gemini_recv(c)
    \/ \E c \in Conns : receive_from_gemini_forwarded(c)
    \/ \E c \in Conns : process_tool_calls_start(c)
    \/ \E c \in Conns : process_tool_calls_get(c)
    \/ \E c \in Conns : process_tool_calls_timeout(c)
    \/ \E c \in Conns : process_tool_calls_cancelled(c)
    \/ \E c \in Conns : \E i \in DOMAIN task[c] : handle_tool_call_start(c, i)
    \/ \E c \in Conns : \E i \in DOMAIN task[c] : handle_tool_call_called(c, i)
    \/ \E c \in Conns : \E i \in DOMAIN task[c] : handle_tool_call_sent(c, i)
    \/ \E c \in Conns : \E i \in DOMAIN task[c] : handle_tool_call_error_sent(c, i)
    \/ \E c \in Conns : \E i \in DOMAIN task[c] : handle_tool_call_cancelled(c, i)
    \/ \E c \in Conns : \E who \in Callers : cleanup_processor_awaited(c, who)
    \/ \E c \in Conns : \E who \in Callers : cleanup_gathered(c, who)
    \/ \E c \in Conns : connect_and_run_gathered(c)

\* The steps of the server: connections, attempts, retries, sessions, clock.
NextServer ==
    \/ \E c \in Conns : websocket_endpoint(c)
    \/ \E c \in Conns : connect_and_run_attempt(c)
    \/ \E c \in Conns : connect_and_run_mcp_client(c)
    \/ \E c \in Conns : connect_and_run_connected(c)
    \/ \E c \in Conns : on_backoff(c)
    \/ \E c \in Conns : connect_and_run_ready(c)
    \/ NextSession
    \/ Tick

\* A connection that never connects.
NoInputs == [connects |-> FALSE, frames |-> 0, client_msgs |-> 0, faults |-> {},
             frame_set |-> {}, client_data |-> {}]

\* One session, from its construction, a tick after its window started:
\* every kind of upstream frame, and a
\* client message that is forwarded, one that is a setup, one that is fatal.
Init == InitSessions([c \in Conns |->
            IF c = "A"
            THEN [connects |-> TRUE, frames |-> MaxFrames,
                  client_msgs |-> SmallClientMsgs, faults |-> Collaborators,
                  frame_set |-> Frames,
                  client_data |-> {"clientContent", "setup", "number"}]
            ELSE NoInputs], 1)
Next == NextSession \/ Tick
Spec == Init /\ [][Next]_vars

\* One session, from its construction within the tick of the clock in which
\* its window starts, with every shape of client message.
InitClient == InitSessions([c \in Conns |->
            IF c = "A"
            THEN [connects |-> TRUE, frames |-> SmallFrames,
                  client_msgs |-> MaxClientMsgs, faults |-> Collaborators,
                  frame_set |-> Frames, client_data |-> ClientData]
            ELSE NoInputs], 0)
SpecClient == InitClient /\ [][Next]_vars

\* Two sessions side by side, from their construction, while both windows
\* are open: A is sent tool calls, some of which its tool backend fails, B
\* a tool call without invocations and a client message.
InitTwo == InitSessions([c \in Conns |->
            IF c = "A"
            THEN [connects |-> TRUE, frames |-> MaxFrames,
                  client_msgs |-> 0, faults |-> {"mcp_client"},
                  frame_set |-> {[kind |-> "toolCall", n |-> 1]},
                  client_data |-> {}]
            ELSE [connects |-> TRUE, frames |-> SmallFrames,
                  client_msgs |-> SmallClientMsgs, faults |-> {},
                  frame_set |-> {[kind |-> "toolCall_None", n |-> 0]},
                  client_data |-> {"clientContent", "setup"}]], 1)
SpecTwo == InitTwo /\ [][NextSession]_vars

\* One connection, from accept: the attempts and retries of connect_and_run
\* and the session the successful attempt runs.
InitRetry == InitServer([c \in Conns |->
            IF c = "A"
            THEN [connects |-> TRUE, frames |-> SmallFrames,
                  client_msgs |-> SmallClientMsgs, faults |-> Collaborators,
                  frame_set |-> {[kind |-> "toolCall", n |-> 1]},
                  client_data |-> {"clientContent"}]
            ELSE NoInputs])
SpecRetry == InitRetry /\ [][NextServer]_vars

\* One session, from its construction, with traffic in both directions:
\* upstream frames with and without a tool call, client messages of both
\* forwarded kinds and a setup, and sends that may fail on either side.
InitForward == InitSessions([c \in Conns |->
            IF c = "A"
            THEN [connects |-> TRUE, frames |-> MaxFrames,
                  client_msgs |-> MaxClientMsgs,
                  faults |-> {"session", "websocket", "mcp_client"},
                  frame_set |-> {[kind |-> "content", n |-> 0],
                                 [kind |-> "toolCall", n |-> 1]},
                  client_data |-> {"realtimeInput", "clientContent", "setup"}]
            ELSE NoInputs], 1)
SpecForward == InitForward /\ [][Next]_vars

\* The steps the event loop of the server takes by itself, once a task is
\* ready: everything but the arrival of a client message or of an upstream
\* frame (or the failure of the read that waits for one) and the clock.
\* A task that is ready is run, so each of them is weakly fair.
Scheduled(c) ==
    /\ WF_vars(receive_from_client_start(c))
    /\ WF_vars(receive_from_client_sent(c))
    /\ WF_vars(receive_from_gemini_start(c))
    /\ WF_vars(receive_from_gemini_forwarded(c))
    /\ WF_vars(process_tool_calls_start(c))
    /\ WF_vars(process_tool_calls_get(c))
    /\ WF_vars(process_tool_calls_timeout(c))
    /\ WF_vars(process_tool_calls_cancelled(c))
    /\ \A i \in 1..MaxFrames :
          /\ WF_vars(i \in DOMAIN task[c] /\ handle_tool_call_start(c, i))
          /\ WF_vars(i \in DOMAIN task[c] /\ handle_tool_call_called(c, i))
          /\ WF_vars(i \in DOMAIN task[c] /\ handle_tool_call_sent(c, i))
          /\ WF_vars(i \in DOMAIN task[c] /\ handle_tool_call_error_sent(c, i))
          /\ WF_vars(i \in DOMAIN task[c] /\ handle_tool_call_cancelled(c, i))
    /\ \A who \in Callers :
          /\ WF_vars(cleanup_processor_awaited(c, who))
          /\ WF_vars(cleanup_gathered(c, who))
    /\ WF_vars(connect_and_run_gathered(c))

\* One session, from its construction, under a fair event loop: one upstream
\* frame (a tool call, or the end of the stream) and one client message.
InitLive == InitSessions([c \in Conns |->
            IF c = "A"
            THEN [connects |-> TRUE, frames |-> SmallFrames,
                  client_msgs |-> SmallClientMsgs, faults |-> Collaborators,
                  frame_set |-> {[kind |-> "toolCall", n |-> 1],
                                 [kind |-> "empty", n |-> 0]},
                  client_data |-> {"clientContent"}]
            ELSE NoInputs], 1)
SpecLive == InitLive /\ [][Next]_vars /\ \A c \in Conns : Scheduled(c)

\* ------------------------------------------------------------- claims
\* A GeminiSession was constructed for connection c.
has_session(c) == pc[c].receive_from_client # "none"

\* The step is one in which the call of cleanup made by `who` returns.
cleanup_returns(c, who) ==
    /\ pc[c][who] \in {"gather", "receive_json", "send", "recv", "send_bytes", "start",
                       "cleanup_await_processor", "cleanup_gather"}
    /\ pc'[c][who] = after_cleanup(who)

\* No call of cleanup has raised.
no_cleanup_raised == \A c \in Conns : \A who \in Callers : pc[c][who] # "failed"

\* C1 (as stated): once the running flag of a session is false it is never
\* true again, and the dispatcher creates no tool task in any later state.
C1_NoSpawnAfterStop ==
    [][\A c \in Conns :
          (has_session(c) /\ ~is_running[c])
              => (~is_running'[c] /\ Len(task'[c]) = Len(task[c]))]_vars

\* C2: a call of cleanup that returns while another caller is suspended in
\* cleanup, or after another caller's cleanup has returned, raises nothing
\* and leaves running false, the dispatcher task terminated and the list of
\* tool tasks empty.
C2_CleanupIdempotent ==
    /\ []no_cleanup_raised
    /\ [][\A c \in Conns : \A who \in Callers :
            (/\ cleanup_returns(c, who)
             /\ \E other \in Callers \ {who} :
                   pc[c][other] \in {after_cleanup(other), "cleanup_await_processor",
                                     "cleanup_gather"})
               => /\ ~is_running'[c]
                  /\ processor_done(tool_processor_task'[c])
                  /\ tool_tasks'[c] = <<>>]_vars
\* The call made by receive_from_client has returned while the call made by
\* receive_from_gemini, begun before, still awaits the tool tasks.
C2_Witness ==
    /\ pc["A"].receive_from_client = "done"
    /\ pc["A"].receive_from_gemini = "cleanup_gather"
    /\ gather_wait["A"].receive_from_gemini # {}

\* C9: when a call of cleanup returns, running is false, the dispatcher task
\* (if one was created) has ended, every tool task has ended, those cleanup
\* found outstanding have ended cancelled, the list of tool tasks is empty;
\* and no call of cleanup raises what a tool task raised.
C9_CleanupPostcondition ==
    /\ [](/\ no_cleanup_raised
          /\ \A c \in Conns : \A who \in Callers :
                pc[c][who] = "cleanup_gather" =>
                   \A i \in gather_wait[c][who] :
                      task_done(task[c][i]) \/ task[c][i].must_cancel)
    /\ [][\A c \in Conns : \A who \in Callers :
            cleanup_returns(c, who)
               => /\ ~is_running'[c]
                  /\ tool_processor_task'[c].st \in {"None", "cancelled", "finished"}
                  /\ \A i \in DOMAIN task'[c] :
                        /\ task_done(task'[c][i])
                        /\ task'[c][i].must_cancel => task'[c][i].st = "cancelled"
                  /\ tool_tasks'[c] = <<>>]_vars
\* cleanup has returned to receive_from_gemini after it cancelled the
\* dispatcher and a tool task, another tool task having failed.
C9_Witness ==
    /\ pc["A"].receive_from_gemini = "done"
    /\ tool_processor_task["A"].st = "cancelled"
    /\ tool_tasks["A"] = <<>>
    /\ \E i, j \in DOMAIN task["A"] :
          task["A"][i].st = "cancelled" /\ task["A"][j].st = "failed"

\* The response envelopes sent upstream for frame f of session c, in order.
envelopes(c, f) ==
    SelectSeq(to_upstream[c], LAMBDA m : m.via = "tool" /\ m.frame = f)

\* connect_and_run has returned or raised: the session is over.
session_over(c) == pc[c].connect_and_run \in {"returned", "raised"}

\* C3 (as stated): every tool-call frame received from upstream with N
\* invocations gets exactly N response envelopes, one per invocation with
\* its id; checked of the frames of a session that is over.
C3_ExactlyN ==
    \A c \in Conns : \A f \in DOMAIN from_upstream[c] :
        (session_over(c) /\ from_upstream[c][f].kind = "toolCall")
            => /\ Len(envelopes(c, f)) = from_upstream[c][f].n
               /\ \A k \in DOMAIN envelopes(c, f) : envelopes(c, f)[k].id = k

\* C3 (amended): response envelopes are sent only for received tool-call
\* frames; a frame with N invocations gets at most N, the k-th carrying the
\* id of the k-th invocation; it has exactly N once its tool task has run to
\* its end, whatever mix of the backend calls succeeded or failed.
C3_AtMostNInOrder ==
    \A c \in Conns :
        /\ \A k \in DOMAIN to_upstream[c] :
              to_upstream[c][k].via = "tool"
                 => /\ to_upstream[c][k].frame \in DOMAIN from_upstream[c]
                    /\ from_upstream[c][to_upstream[c][k].frame].kind = "toolCall"
        /\ \A f \in DOMAIN from_upstream[c] :
              /\ Len(envelopes(c, f)) <= from_upstream[c][f].n
              /\ \A k \in DOMAIN envelopes(c, f) : envelopes(c, f)[k].id = k
              /\ \A i \in DOMAIN task[c] :
                    (task[c][i].frame = f /\ task[c][i].st = "done" /\ ~task[c][i].is_none)
                       => Len(envelopes(c, f)) = from_upstream[c][f].n
\* A frame of MaxCalls invocations whose task has run to its end, one
\* invocation answered with an error, another with a result.
C3_Witness ==
    \E i \in DOMAIN task["A"] :
        /\ task["A"][i].st = "done"
        /\ task["A"][i].n = MaxCalls
        /\ \E k, l \in DOMAIN envelopes("A", task["A"][i].frame) :
              /\ envelopes("A", task["A"][i].frame)[k].response = "error"
              /\ envelopes("A", task["A"][i].frame)[l].response = "response"

\* C4 (as stated): a failure while handling one invocation becomes an error
\* response and does not keep the remaining invocations of the frame from
\* being executed and answered: a tool task that ends without having been
\* cancelled has answered every invocation of its frame.
C4_FailureIsAnswered ==
    \A c \in Conns : \A i \in DOMAIN task[c] :
        (task[c][i].st \in {"done", "failed"} /\ ~task[c][i].is_none)
            => Len(envelopes(c, task[c][i].frame)) = task[c][i].n

\* Time t is strictly inside the window of session c.
inside(c, t) == window[c][1] < t /\ t < window[c][2]
\* The client messages forwarded on the upstream session of c, in order.
forwarded(c) == SelectSeq(to_upstream[c], LAMBDA m : m.via = "client")
\* receive_json has returned a message to receive_from_client in this step.
receives(c) == Len(from_client'[c]) = Len(from_client[c]) + 1

\* C5: the window is checked on every client message, both bounds strict: a
\* message received at a time not strictly inside it is the last one the
\* session receives, is neither forwarded nor used to set run_id/user_id,
\* and ends the session (running false), whatever was accepted before.
C5_WindowPerMessage ==
    /\ [](\A c \in Conns :
            /\ \A k \in DOMAIN from_client[c] :
                  ~inside(c, from_client[c][k].time)
                     => /\ k = Len(from_client[c])
                        /\ ~is_running[c]
                        /\ pc[c].receive_from_client \notin {"receive_json", "send"}
            /\ Len(forwarded(c)) <=
                  Cardinality({k \in DOMAIN from_client[c] :
                                  inside(c, from_client[c][k].time)}))
    /\ [][\A c \in Conns :
            (receives(c) /\ ~inside(c, now))
               => /\ to_upstream'[c] = to_upstream[c]
                  /\ run_id'[c] = run_id[c]
                  /\ user_id'[c] = user_id[c]
                  /\ ~is_running'[c]]_vars
\* A first message was accepted and forwarded, the second arrived at the
\* instant the window ends and ended the session.
C5_Witness ==
    /\ Len(from_client["A"]) = 2
    /\ inside("A", from_client["A"][1].time)
    /\ from_client["A"][2].time = window["A"][2]
    /\ from_client["A"][2].data = "clientContent"
    /\ Len(forwarded("A")) = 1
    /\ ~is_running["A"]

\* The client messages received inside the window that carry realtimeInput
\* or clientContent, in order.
content_messages(c) ==
    SelectSeq(from_client[c],
              LAMBDA m : /\ inside(c, m.time)
                         /\ m.data \in {"realtimeInput", "clientContent",
                                        "setup+clientContent"})

\* C8: a client message received inside the window that carries
\* realtimeInput or clientContent goes to the upstream send with run_id and
\* user_id unchanged, and what is sent upstream parses to the value received;
\* one that carries setup with both ids, and neither of those keys, sets
\* run_id and user_id to the payload's values and is not forwarded.
C8_Classification ==
    /\ [](\A c \in Conns :
            /\ Len(forwarded(c)) <= Len(content_messages(c))
            /\ \A k \in DOMAIN forwarded(c) :
                  json_loads(forwarded(c)[k].text) = content_messages(c)[k].data)
    /\ [][\A c \in Conns :
            (receives(c) /\ inside(c, now))
               => LET data == Last(from_client'[c]).data IN
                  /\ data \in {"realtimeInput", "clientContent", "setup+clientContent"}
                        => /\ pc'[c].receive_from_client = "send"
                           /\ run_id'[c] = run_id[c]
                           /\ user_id'[c] = user_id[c]
                  /\ data = "setup"
                        => /\ pc'[c].receive_from_client # "send"
                           /\ run_id'[c] = "r1"
                           /\ user_id'[c] = "u1"
                           /\ to_upstream'[c] = to_upstream[c]]_vars
\* The scenario: a setup message stored as r1/u1, then a content message
\* forwarded upstream, the only message sent there.
C8_Witness ==
    /\ Len(from_client["A"]) = 2
    /\ from_client["A"][1].data = "setup"
    /\ from_client["A"][2].data = "clientContent"
    /\ run_id["A"] = "r1"
    /\ user_id["A"] = "u1"
    /\ to_upstream["A"] = <<[via |-> "client", text |-> json_dumps("clientContent")]>>

\* The status notices sent to the client of c, in order.
status_notices(c) == SelectSeq(to_client[c], LAMBDA m : "status" \in DOMAIN m)

\* C6: when an attempt of connect_and_run succeeds after k attempts failed
\* and were retried (tries = k + 1), the client has been sent, before
\* anything else, exactly k retry notices and then one readiness notice.
C6_RetryNotices ==
    \A c \in Conns :
        /\ pc[c].connect_and_run \in {"connect", "live_connect", "send_ready", "on_backoff"}
              => to_client[c] = [k \in 1..(tries[c] - 1) |-> [status |-> "retrying"]]
        /\ has_session(c)
              => /\ status_notices(c) =
                       [k \in 1..tries[c] |-> IF k < tries[c] THEN [status |-> "retrying"]
                                              ELSE [status |-> "ready"]]
                 /\ \A k \in 1..tries[c] : to_client[c][k] = status_notices(c)[k]
\* The last attempt allowed succeeded: max_tries - 1 retry notices, then
\* the readiness notice, and the session runs.
C6_Witness ==
    /\ has_session("A")
    /\ tries["A"] = max_tries
    /\ Len(status_notices("A")) = max_tries
    /\ Last(status_notices("A")) = [status |-> "ready"]
    /\ pc["A"].receive_from_gemini = "recv"

\* C7: connect_and_run is attempted at most max_tries times; an attempt
\* after the first follows a ConnectionClosedError of the attempt before;
\* the max_tries-th ConnectionClosedError, and any other exception of any
\* attempt, is raised, and nothing is attempted after a raise.
C7_BoundedSelectiveRetry ==
    /\ [](\A c \in Conns :
            /\ tries[c] <= max_tries
            /\ (exception[c] = "ConnectionClosedError" /\ tries[c] = max_tries)
                  => pc[c].connect_and_run = "raised"
            /\ exception[c] = "Exception"
                  => pc[c].connect_and_run \in {"raised", "cleanup_await_processor",
                                                "cleanup_gather"})
    /\ [][\A c \in Conns :
            /\ tries'[c] # tries[c]
                  => /\ tries'[c] = tries[c] + 1
                     /\ tries[c] = 0 \/ exception[c] = "ConnectionClosedError"
            /\ pc[c].connect_and_run = "raised"
                  => pc'[c].connect_and_run = "raised" /\ tries'[c] = tries[c]]_vars
\* The max_tries-th attempt in a row ended with ConnectionClosedError and
\* the error is raised to websocket_endpoint.
C7_Witness ==
    /\ tries["A"] = max_tries
    /\ exception["A"] = "ConnectionClosedError"
    /\ pc["A"].connect_and_run = "raised"
    /\ Len(to_client["A"]) = max_tries - 1

\* The state of session c, and the part of it the claim names.
session_state(c) ==
    <<pc[c], is_running[c], run_id[c], user_id[c], window[c], tool_tasks[c],
      tool_call_queue[c], tool_processor_task[c], task[c], gather_wait[c],
      from_client[c], from_upstream[c], to_upstream[c], to_client[c]>>
isolated_state(c) ==
    <<is_running[c], run_id[c], user_id[c], tool_call_queue[c], tool_tasks[c]>>
\* The frames of session c handed to tool tasks, then those still queued.
dispatch_order(c) ==
    [i \in DOMAIN task[c] |-> [frame |-> task[c][i].frame, n |-> task[c][i].n]]
    \o [k \in DOMAIN tool_call_queue[c] |->
           [frame |-> tool_call_queue[c][k].frame, n |-> tool_call_queue[c][k].n]]

\* C10: a step that changes one session leaves the running flag, run_id,
\* user_id, queue and tool-task list of every other session unchanged; the
\* queue of a session changes by an append at its tail or by the removal of
\* its head, for which a tool task of that session is created; the frames a
\* session queues and dispatches are tool-call frames it received itself,
\* in the order received.
C10_Isolation ==
    /\ [](\A c \in Conns : \A k \in DOMAIN dispatch_order(c) :
            /\ dispatch_order(c)[k].frame \in DOMAIN from_upstream[c]
            /\ from_upstream[c][dispatch_order(c)[k].frame].kind
                  \in {"toolCall", "toolCall_None"}
            /\ from_upstream[c][dispatch_order(c)[k].frame].n = dispatch_order(c)[k].n
            /\ \A l \in DOMAIN dispatch_order(c) :
                  k < l => dispatch_order(c)[k].frame < dispatch_order(c)[l].frame)
    /\ [][\A a \in Conns :
            /\ session_state(a)' # session_state(a)
                  => \A b \in Conns \ {a} : isolated_state(b)' = isolated_state(b)
            /\ tool_call_queue'[a] # tool_call_queue[a]
                  => \/ \E f \in DOMAIN from_upstream[a] :
                          /\ from_upstream[a][f].kind \in {"toolCall", "toolCall_None"}
                          /\ tool_call_queue'[a] =
                                Append(tool_call_queue[a],
                                       [frame |-> f,
                                        is_none |-> from_upstream[a][f].kind = "toolCall_None",
                                        n |-> from_upstream[a][f].n])
                     \/ /\ tool_call_queue[a] # <<>>
                        /\ tool_call_queue'[a] = Tail(tool_call_queue[a])
                        /\ Len(task'[a]) = Len(task[a]) + 1
                        /\ Last(task'[a]).frame = Head(tool_call_queue[a]).frame]_vars
\* A has dispatched its two frames in order and has been cleaned up, while
\* B still runs with its frame queued and the identity its client set.
C10_Witness ==
    /\ Len(task["A"]) = MaxFrames
    /\ ~is_running["A"]
    /\ tool_tasks["A"] = <<>>
    /\ user_id["A"] = "initial_user_id"
    /\ is_running["B"]
    /\ user_id["B"] = "u1"
    /\ Len(tool_call_queue["B"]) = 1

\* ------------------------------------------------------------------ C11
\* The two forwarding loops of a session.
Loops == {"receive_from_client", "receive_from_gemini"}
\* The coroutine has ended: it returned, or an exception left it.
terminated(c, loop) == pc[c][loop] \in {"done", "failed"}

\* C11: in every reachable state, a forwarding loop that has terminated, by
\* whatever path (the peer closed, a read or send raised, a message arrived
\* outside the window, the stream ended, the flag was found false), has itself
\* called cleanup for its session, and the running flag of the session is
\* false.
C11_TerminatedImpliesCleanup ==
    \A c \in Conns : \A loop \in Loops :
        terminated(c, loop)
            => (loop \in cleanup_invoked[c] /\ ~is_running[c])
\* Both loops have terminated by different paths: the upstream stream ended
\* with an empty frame, and the client loop found the flag false after a
\* message it had forwarded.
C11_Witness ==
    \E c \in Conns :
        /\ \A loop \in Loops : terminated(c, loop)
        /\ cleanup_invoked[c] = Loops
        /\ from_upstream[c] # <<>> /\ Last(from_upstream[c]).kind = "empty"
        /\ from_client[c] # <<>> /\ Len(forwarded(c)) = Len(from_client[c])

\* ------------------------------------------------------------------ C12
\* C12 (as stated): the two forwarding loops are fate-shared: whenever
\* either loop of a session has terminated, the session eventually is
\* closed (the other loop has terminated too, the dispatcher and every tool
\* task are resolved, and the gather of connect_and_run has returned), with
\* no further message from the client or from upstream being needed.
C12_FateShared ==
    \A c \in Conns :
        (\E loop \in Loops : terminated(c, loop))
            ~> (/\ \A loop \in Loops : terminated(c, loop)
                /\ processor_done(tool_processor_task[c])
                /\ \A i \in DOMAIN task[c] : task_done(task[c][i])
                /\ session_over(c))

\* ------------------------------------------------------------------ C13
\* The frames sent to the client of c by send_bytes, in order.
frames_sent(c) ==
    LET sent == SelectSeq(to_client[c], LAMBDA m : "bytes" \in DOMAIN m)
    IN  [k \in DOMAIN sent |-> sent[k].bytes]
\* The client messages of c that carry realtimeInput or clientContent, in
\* arrival order.
content_keyed(c) ==
    LET keyed == SelectSeq(from_client[c],
                           LAMBDA m : is_dict(m.data) /\ has_content_key(m.data))
    IN  [k \in DOMAIN keyed |-> keyed[k].data]
\* s is a prefix of t.
IsPrefix(s, t) == Len(s) <= Len(t) /\ s = SubSeq(t, 1, Len(s))

\* C13: forwarding keeps order and content in each direction: at every
\* moment the frames sent to the client are a prefix of the frames received
\* from upstream (the same bytes, none skipped, duplicated or reordered), and
\* the messages the client loop has sent upstream parse to a prefix of the
\* realtimeInput/clientContent messages received from the client, in arrival
\* order; a step appends to either output at most one message.
C13_ForwardingPreservesOrder ==
    /\ [](\A c \in Conns :
            /\ IsPrefix(frames_sent(c), from_upstream[c])
            /\ IsPrefix([k \in DOMAIN forwarded(c) |-> json_loads(forwarded(c)[k].text)],
                        content_keyed(c)))
    /\ [][\A c \in Conns :
            /\ Len(frames_sent(c)') <= Len(frames_sent(c)) + 1
            /\ IsPrefix(frames_sent(c), frames_sent(c)')
            /\ Len(forwarded(c)') <= Len(forwarded(c)) + 1
            /\ IsPrefix(forwarded(c), forwarded(c)')]_vars
\* Two different frames and two different client messages have been
\* forwarded.
C13_Witness ==
    \E c \in Conns :
        /\ Len(frames_sent(c)) = 2 /\ frames_sent(c)[1] # frames_sent(c)[2]
        /\ Len(forwarded(c)) = 2 /\ forwarded(c)[1] # forwarded(c)[2]

\* ------------------------------------------------------------------ C14
\* A tool task of c is pending on the tool backend (in call_tool).
pending_on_backend(c) == {i \in DOMAIN task[c] : task[c][i].st = "call_tool"}
\* The frame carries a tool call that receive_from_gemini puts on the queue.
carries_tool_call(frame) == frame.kind \in {"toolCall", "toolCall_None"}

\* The step of receive_from_gemini in which send_bytes returns: the frame
\* has gone to the client.
forwards(c) ==
    /\ receive_from_gemini_forwarded(c)
    /\ Len(to_client'[c]) = Len(to_client[c]) + 1

\* C14: the upstream-read loop never waits on tool execution. Whatever
\* tool tasks are pending on the backend and whatever the queue holds, the
\* loop is never disabled once its send_bytes has been started: the step
\* in which the frame goes to the client can be taken, and that same step
\* puts a frame that carries a tool call on the queue (the put never
\* waits); the loop is then back at recv or has ended, never suspended at
\* the put.
C14_ReadLoopNeverWaitsOnTools ==
    /\ [](\A c \in Conns :
            pc[c].receive_from_gemini = "send_bytes" => ENABLED forwards(c))
    /\ [][\A c \in Conns :
            Len(frames_sent(c)') = Len(frames_sent(c)) + 1
                => /\ Last(frames_sent(c)') = Last(from_upstream[c])
                   /\ pc'[c].receive_from_gemini # "send_bytes"
                   /\ carries_tool_call(Last(from_upstream[c]))
                        => /\ Len(tool_call_queue'[c]) = Len(tool_call_queue[c]) + 1
                           /\ Last(tool_call_queue'[c]).frame = Len(from_upstream[c])
                   /\ ~carries_tool_call(Last(from_upstream[c]))
                        => tool_call_queue'[c] = tool_call_queue[c]]_vars
\* While the tool task of the first frame is still pending on the backend
\* and the queue is not empty, a second tool-call frame has been forwarded
\* and put on the queue.
C14_Witness ==
    \E c \in Conns :
        /\ pending_on_backend(c) # {}
        /\ Len(frames_sent(c)) = 2
        /\ carries_tool_call(from_upstream[c][2])
        /\ tool_call_queue[c] # <<>> /\ Last(tool_call_queue[c]).frame = 2
        /\ is_running[c]

\* ------------------------------------------------------------------ C15
\* C15 (as stated): the retry notice is best effort: whether or not its
\* send to the client succeeds, a backoff is followed by the wait and the
\* next attempt of connect_and_run, never by the end of the retry sequence.
C15_RetryNoticeBestEffort ==
    [][\A c \in Conns :
          (pc[c].connect_and_run = "on_backoff"
              /\ pc'[c].connect_and_run # "on_backoff")
          => (pc'[c].connect_and_run = "sleep" /\ exception'[c] = exception[c])]_vars

\* ------------------------------------------------------------------ C16
\* The client messages that are neither realtimeInput/clientContent nor a
\* well-formed setup: a JSON value that is not an object, an object with
\* none of the recognised keys, a setup without run_id or without user_id.
Malformed == {"array", "number", "unknown_keys", "setup_no_run_id", "setup_no_user_id"}

\* C16 (as stated): malformed or unexpected client input is not fatal: when
\* a running session receives such a message inside its window, nothing is
\* forwarded, the running flag stays true, and the client loop is back at
\* receive_json for the next message.
C16_MalformedInputNonFatal ==
    [][\A c \in Conns :
          (/\ receives(c)
           /\ is_running[c]
           /\ inside(c, now)
           /\ Last(from_client'[c]).data \in Malformed)
          => (/\ is_running'[c]
              /\ pc'[c].receive_from_client = "receive_json"
              /\ to_upstream'[c] = to_upstream[c])]_vars

\* ------------------------------------------------------------------ C17
\* C17 (as stated): setting the running flag to false stops both loops at
\* once: from a state in which the flag of a session is false, no step has
\* the client loop forward a message upstream or store a setup identity, and
\* no step has the upstream loop forward a frame to the client or put a
\* tool-call frame on the queue.
C17_StopIsImmediate ==
    [][\A c \in Conns :
          (has_session(c) /\ ~is_running[c])
          => (/\ forwarded(c)' = forwarded(c)
              /\ run_id'[c] = run_id[c]
              /\ user_id'[c] = user_id[c]
              /\ frames_sent(c)' = frames_sent(c)
              /\ Len(tool_call_queue'[c]) <= Len(tool_call_queue[c]))]_vars

\* ------------------------------------------------------------------ C18
\* The frames receive_from_gemini of c has put on the queue, in order: the
\* forwarded frames that carry a tool call, by their position upstream.
enqueued(c) ==
    LET RECURSIVE upto(_)
        upto(k) ==
            IF k = 0 THEN <<>>
            ELSE IF carries_tool_call(from_upstream[c][k])
                 THEN Append(upto(k - 1), k)
                 ELSE upto(k - 1)
    IN  upto(Len(frames_sent(c)))
\* The frames the dispatcher of c has taken and spawned a task for, in order.
dequeued(c) == [i \in DOMAIN task[c] |-> task[c][i].frame]
\* The frames still on the queue of c, in order.
queued(c) == [k \in DOMAIN tool_call_queue[c] |-> tool_call_queue[c][k].frame]

\* C18 (as stated): every frame put on the queue is consumed exactly once:
\* one task is spawned for it, and when the session is over none is left on
\* the queue.
C18_ConsumedExactlyOnce ==
    \A c \in Conns :
        session_over(c) => (dequeued(c) = enqueued(c) /\ queued(c) = <<>>)
\* C18 (amended): every frame put on the queue is consumed at most once and
\* in order: at every moment the frames for which a task was spawned,
\* followed by the frames still queued, are exactly the frames enqueued, in
\* the order of their arrival, each once; a timeout of the queue pop
\* removes nothing. Frames still queued when the session stops stay queued.
C18_ConsumedAtMostOnceInOrder ==
    /\ [](\A c \in Conns : dequeued(c) \o queued(c) = enqueued(c))
    /\ [][\A c \in Conns : IsPrefix(dequeued(c), dequeued(c)')]_vars
\* Two enqueued frames have each been given one task, the queue is empty.
C18_Witness ==
    \E c \in Conns :
        /\ Len(enqueued(c)) = 2
        /\ dequeued(c) = enqueued(c)
        /\ queued(c) = <<>>

\* ------------------------------------------------------------------ C19
\* The only cleanup of session c so far is the orderly one: the client loop
\* ended because the last client message fell outside the window (and the
\* cancellation of the dispatcher was delivered, so that every tool task
\* there is was in flight when cleanup was called).
orderly_cleanup(c) ==
    /\ cleanup_invoked[c] = {"receive_from_client"}
    /\ from_client[c] # <<>>
    /\ ~inside(c, Last(from_client[c]).time)
    /\ ~tool_processor_task[c].swallow

\* C19 (as stated): when cleanup is orderly, the tool tasks in flight are
\* left to run to their end and send their responses: none of them has
\* been asked to cancel and none is cancelled.
C19_OrderlyCleanupDrains ==
    \A c \in Conns :
        orderly_cleanup(c)
            => \A i \in DOMAIN task[c] :
                  ~task[c][i].must_cancel /\ task[c][i].st # "cancelled"

\* ------------------------------------------------------------------ C20
\* connect_and_run of c moves to position `to` in this step.
arrives(c, to) ==
    pc'[c].connect_and_run = to /\ pc[c].connect_and_run # to
\* The readiness notices sent to the client of c.
ready_notices(c) == SelectSeq(to_client[c], LAMBDA m : m = status_ready)

\* C20: within every attempt the steps come in this order: the tool client
\* is entered, then the upstream session is opened, then the readiness
\* notice is sent, then the session object is made and its two loops are
\* started. So the upstream session is opened only by an attempt that holds
\* its tool client, a readiness notice is sent only once the upstream
\* session is open and in the very step that makes the session and starts
\* the loops, and a client message or an upstream frame is forwarded only
\* while the loops of a session run, after the readiness notice, which
\* nothing but retry notices precedes.
C20_AttemptOrder ==
    /\ [][\A c \in Conns :
            /\ arrives(c, "connect") => pc[c].connect_and_run \in {"call", "sleep"}
            /\ arrives(c, "live_connect") => pc[c].connect_and_run = "connect"
            /\ arrives(c, "send_ready") => pc[c].connect_and_run = "live_connect"
            /\ arrives(c, "gather") => pc[c].connect_and_run = "send_ready"
            /\ Len(ready_notices(c)') > Len(ready_notices(c))
                  => (/\ pc[c].connect_and_run = "send_ready"
                      /\ arrives(c, "gather")
                      /\ Last(to_client'[c]) = status_ready)
            /\ (~has_session(c) /\ has_session(c)')
                  => (/\ arrives(c, "gather")
                      /\ Len(ready_notices(c)') = Len(ready_notices(c)) + 1
                      /\ pc'[c].receive_from_client = "start"
                      /\ pc'[c].receive_from_gemini = "start")
            /\ (frames_sent(c)' # frames_sent(c) \/ to_upstream'[c] # to_upstream[c])
                  => (pc[c].connect_and_run = "gather" /\ has_session(c))]_vars
    /\ [](\A c \in Conns :
            (frames_sent(c) # <<>> \/ to_upstream[c] # <<>> \/ has_session(c))
                => \E k \in DOMAIN to_client[c] :
                      /\ to_client[c][k] = status_ready
                      /\ \A j \in 1..(k - 1) : to_client[c][j] = status_retrying)
\* The second attempt of a connection succeeded: after one retry notice and
\* the readiness notice, a frame was forwarded to the client and a client
\* message upstream.
C20_Witness ==
    \E c \in Conns :
        /\ tries[c] = 2
        /\ frames_sent(c) # <<>>
        /\ forwarded(c) # <<>>
        /\ to_client[c][1] = status_retrying /\ to_client[c][2] = status_ready

\* ------------------------------------------------------------------ C21
\* The token of c carries a window that contains time t, both ends strict.
token_admits(c, t) ==
    /\ session_key[c].decodable
    /\ session_key[c].has_from /\ session_key[c].has_to
    /\ session_key[c].from < t /\ t < session_key[c].to
\* An attempt of connect_and_run of c starts in this step.
attempt_starts(c) ==
    pc[c].connect_and_run \in {"call", "sleep"} /\ tries'[c] = tries[c] + 1
\* connect_and_run of c is past the validity check of an attempt.
past_validity_check(c) ==
    pc[c].connect_and_run \in {"connect", "live_connect", "send_ready", "gather"}

\* C21: with the validity check on, an attempt made when the token cannot
\* be decoded, lacks its start or its end, or has a window that does not
\* contain the current time, returns at once: it opens no upstream session,
\* sends no readiness notice and makes no session object. With the check
\* skipped, every attempt goes on to connect, with the window from now to
\* now + 24h taken when the attempt starts, whatever the token is, and that
\* window is the one the session it establishes has.
C21_ValidityGate ==
    /\ [][\A c \in Conns :
            attempt_starts(c)
              => IF ~SKIP_TIME_CHECK /\ ~token_admits(c, now)
                 THEN /\ pc'[c].connect_and_run = "returned"
                      /\ to_client'[c] = to_client[c]
                      /\ ~has_session(c)'
                 ELSE /\ pc'[c].connect_and_run = "connect"
                      /\ window'[c] = IF SKIP_TIME_CHECK THEN <<now, now + days_1>>
                                      ELSE <<session_key[c].from, session_key[c].to>>]_vars
    /\ [][\A c \in Conns :
            (past_validity_check(c) \/ has_session(c)) => window'[c] = window[c]]_vars
    /\ [](\A c \in Conns :
            (~SKIP_TIME_CHECK /\ \A t \in 0..MaxTime : ~token_admits(c, t))
                => (/\ ~past_validity_check(c)
                    /\ ~has_session(c)
                    /\ to_client[c] = <<>>))
\* With the check on, a token whose window does not contain the time of the
\* attempt: connect_and_run has returned after one attempt and nothing was
\* sent or made.
C21_Witness ==
    \E c \in Conns :
        /\ ~SKIP_TIME_CHECK
        /\ session_key[c].decodable /\ session_key[c].has_from /\ session_key[c].has_to
        /\ pc[c].connect_and_run = "returned"
        /\ tries[c] = 1
        /\ ~has_session(c) /\ to_client[c] = <<>>

\* ------------------------------------------------------------------ C22
\* cancel() was called on tool task i of c (cleanup is the only caller), or
\* the task has ended cancelled.
cancel_requested(c, i) == task[c][i].must_cancel \/ task[c][i].st = "cancelled"

\* C22: a cancelled tool task never reports: from the moment cleanup has
\* cancelled a tool task, no response envelope, success or error, is sent
\* upstream for its frame, the task starts no further invocation, and the
\* only way it ends is cancelled (never done or failed).
C22_CancelledTaskIsSilent ==
    [][\A c \in Conns : \A i \in DOMAIN task[c] :
          cancel_requested(c, i)
            => (/\ envelopes(c, task[c][i].frame)' = envelopes(c, task[c][i].frame)
                /\ task'[c][i].fc = task[c][i].fc
                /\ task'[c][i].st \in {task[c][i].st, "cancelled"}
                /\ cancel_requested(c, i)')]_vars
\* A task of a frame with two invocations answered the first and was
\* cancelled during the second: its frame has the one envelope.
C22_Witness ==
    \E c \in Conns : \E i \in DOMAIN task[c] :
        /\ task[c][i].st = "cancelled"
        /\ task[c][i].n = 2 /\ task[c][i].fc = 2
        /\ Len(envelopes(c, task[c][i].frame)) = 1

\* ------------------------------------------------------------------ C23
\* A GeminiSession is constructed for connection c in this step.
session_created(c) == arrives(c, "gather")

\* C23: at most one session object is bound to a client connection: over
\* the whole life of a connection, every retry of connect_and_run included,
\* a GeminiSession is constructed only while none has been constructed for
\* it before, so there is never a second one and never two that run; the
\* connection is handed to connect_and_run once; and the running flag of
\* the session, once false, is not set again.
C23_OneSessionPerConnection ==
    /\ [][\A c \in Conns :
            /\ session_created(c) => (~has_session(c) /\ ~is_running[c])
            /\ arrives(c, "call") => (pc[c].connect_and_run = "none" /\ tries[c] = 0)
            /\ has_session(c) => (has_session(c)' /\ (is_running'[c] => is_running[c]))]_vars
    /\ [](\A c \in Conns :
            /\ Len(ready_notices(c)) <= 1
            /\ has_session(c) <=> Len(ready_notices(c)) = 1
            /\ is_running[c] => has_session(c))
\* The session of a connection was made by its second attempt and is over:
\* connect_and_run has returned, one readiness notice was sent.
C23_Witness ==
    \E c \in Conns :
        /\ tries[c] = 2
        /\ has_session(c)
        /\ pc[c].connect_and_run = "returned"
        /\ Len(ready_notices(c)) = 1
        /\ frames_sent(c) # <<>>

\* ------------------------------------------------------------------ C24
\* The tool tasks of c that were spawned and have not ended.
outstanding(c) == {i \in DOMAIN task[c] : ~task_done(task[c][i])}
\* The tasks in self._tool_tasks of c.
in_flight(c) == SeqToSet(tool_tasks[c])

\* C24: no tool task is orphaned. In every reachable state every tool task
\* that was spawned and has not ended is in the in-flight list of its
\* session; a step takes out of the list only tasks that have ended (the
\* pruning of the dispatcher, the clear of cleanup); and a call of cleanup
\* that awaits the tool tasks has asked every outstanding task to cancel,
\* however the dispatcher and one or more calls of cleanup interleave.
C24_NoOrphanedToolTask ==
    /\ [](\A c \in Conns :
            /\ outstanding(c) \subseteq in_flight(c)
            /\ \A who \in Callers :
                  pc[c][who] = "cleanup_gather"
                    => /\ outstanding(c) \subseteq gather_wait[c][who]
                       /\ \A i \in outstanding(c) : task[c][i].must_cancel)
    /\ [][\A c \in Conns :
            \A i \in in_flight(c) \ in_flight(c)' : task_done(task[c][i])]_vars
\* Two calls of cleanup, one by each loop, await the same tool task, which
\* was asked to cancel and has not ended yet.
C24_Witness ==
    \E c \in Conns :
        /\ pc[c].receive_from_client = "cleanup_gather"
        /\ pc[c].receive_from_gemini = "cleanup_gather"
        /\ outstanding(c) # {}
        /\ outstanding(c) \subseteq in_flight(c)

====
